---- MODULE Spec2Model ----
(***************************************************************************)
(* Three FreeRTOS demo programs of the repository, each a set of tasks     *)
(* over kernel primitives (suspend/resume, mutex, queue):                  *)
(*   Assignment_01/Task_03  LED task + button task  (SpecLed)              *)
(*   Assignment_02/Task_02  two tasks sharing the UART through a mutex     *)
(*                          (SpecMutex)                                    *)
(*   Assignment_02/Task_03  three producers, one queue, one consumer       *)
(*                          (SpecQueue)                                    *)
(* The kernel calls are modelled by their FreeRTOS semantics at the call   *)
(* sites.  Tasks of equal priority are time-sliced, so their steps         *)
(* interleave at the granularity of one shared-memory access or kernel     *)
(* call per step; time is abstracted (a delay may expire at any moment).   *)
(***************************************************************************)
EXTENDS Integers, Sequences, FiniteSets, TLC

\* ------------------------------------------------------------------------
\* Pin levels (pinState_t)
\* ------------------------------------------------------------------------
PIN_IS_LOW == 0
PIN_IS_HIGH == 1
Levels == {PIN_IS_LOW, PIN_IS_HIGH}

\* ========================================================================
\* Assignment_01/Task_03: LED task and button task
\* ========================================================================
NO_TOGGLE == 0
SLOW_RATE == 400
FAST_RATE == 100
SHORT_LIMIT == 2000
LONG_LIMIT == 4000
SAMPLE_MS == 10

\* Longest press the model measures (the C counter is an unsigned long).
MaxDuration == 4020

VARIABLES
  pin_state,        \* LED1.pin_state
  toggle_rate,      \* LED1.toggle_rate
  led_out,          \* level last written to the LED output pin
  led_pc,           \* position of LED_task_code
  led_tmp,          \* register holding pin_state during "pin_state ^= 1"
  led_suspended,    \* LED task is in the suspended list
  duration,         \* Button_task_code: duration
  pin0_prev_state,  \* Button_task_code: pin0_prev_state
  pin0_curr_state,  \* Button_task_code: pin0_curr_state
  btn_pc,           \* position of Button_task_code
  high_samples,     \* history: High samples in a row up to the last sample
  hold_samples      \* history: High samples in the hold a falling edge ended

ledVars == <<pin_state, toggle_rate, led_out, led_pc, led_tmp, led_suspended,
             duration, pin0_prev_state, pin0_curr_state, btn_pc,
             high_samples, hold_samples>>

\* ========================================================================
\* Assignment_02/Task_02: two tasks, one mutex, one UART
\* ========================================================================
Tasks == {1, 2}
BATCH == 10

\* Longest UART log the model records.
MaxUart == 24

VARIABLES
  mutex,            \* holder of the mutex: 0 = free, 1 = task1, 2 = task2
  task_pc,          \* position of task1_code / task2_code
  message_ID,       \* message_ID of each task
  uart              \* the first MaxUart UART messages: <<task, text>>

mutexVars == <<mutex, task_pc, message_ID, uart>>

\* ========================================================================
\* Assignment_02/Task_03: three producers, one queue, one consumer
\* ========================================================================
MESSAGE_LEN == 25

\* xQueueCreate called with the message length for the queue length.
QueueLen_Mixup == MESSAGE_LEN

MESSAGE_QUEUE_LEN == 10

\* Most level changes the two button pins make in a run.
MaxEdges == 2

VARIABLES
  message_queue,        \* the queue: pointers to Message_st records, oldest first
  record,               \* button1_message, button2_message, string_message
  button_pc,            \* position of Button1_task_code / Button2_task_code
  button_prev_state,    \* button1_prev_state / button2_prev_state
  button_curr_state,    \* button1_curr_state / button2_curr_state
  string_pc,            \* position of String_task_code
  consumer_pc,          \* position of Consumer_task_code
  consumer_message_ptr, \* Consumer_task_code: consumer_message_ptr
  serial_out,           \* text of the last vSerialPutString of the consumer
  edges,                \* level changes the button pins have made so far
  accepted,             \* history: accepted sends not yet received, in the
                        \* order accepted, each with the record's content
                        \* at that moment
  delivered,            \* history: the accepted send the last receive took
  unprinted,            \* history: completed receives minus printed messages
  emitted,              \* history: the texts each button task has sent
  scenario              \* history: how many of the levels a button task has
                        \* read so far, the initial read first, match
                        \* Low, Low, High, High, Low (-1: they do not)

queueVars == <<message_queue, record, button_pc, button_prev_state,
               button_curr_state, string_pc, consumer_pc,
               consumer_message_ptr, serial_out, edges, accepted, delivered,
               unprinted, emitted, scenario>>

vars == <<ledVars, mutexVars, queueVars>>
nonLedVars == <<mutexVars, queueVars>>
nonMutexVars == <<ledVars, queueVars>>
nonQueueVars == <<ledVars, mutexVars>>

\* ------------------------------------------------------------------------
\* LED program: initial state (main, lines 113-135; the tasks have not run)
\* ------------------------------------------------------------------------
LedInit ==
  /\ pin_state = PIN_IS_LOW
  /\ toggle_rate = NO_TOGGLE
  /\ led_out = PIN_IS_LOW
  /\ led_pc = "write"
  /\ led_tmp = PIN_IS_LOW
  /\ led_suspended = FALSE
  /\ duration = 0
  /\ pin0_prev_state = PIN_IS_LOW
  /\ pin0_curr_state = PIN_IS_LOW
  /\ btn_pc = "init"
  /\ high_samples = 0
  /\ hold_samples = 0

\* The LED task runs unless it has suspended itself.
LedRunnable == ~led_suspended

\* GPIO_write(PORT_0, pin_num, pin_state)
LedWrite ==
  /\ LedRunnable
  /\ led_pc = "write"
  /\ led_out' = pin_state
  /\ led_pc' = "check"
  /\ UNCHANGED <<pin_state, toggle_rate, led_tmp, led_suspended,
                 duration, pin0_prev_state, pin0_curr_state, btn_pc>>
  /\ UNCHANGED <<high_samples, hold_samples>>
  /\ UNCHANGED nonLedVars

\* The test written with = for ==: it stores NO_TOGGLE and takes the else
\* branch.
LedCheck_Assign ==
  /\ LedRunnable
  /\ led_pc = "check"
  /\ toggle_rate' = NO_TOGGLE
  /\ led_pc' = "toggle_load"
  /\ UNCHANGED <<pin_state, led_out, led_tmp, led_suspended,
                 duration, pin0_prev_state, pin0_curr_state, btn_pc>>
  /\ UNCHANGED <<high_samples, hold_samples>>
  /\ UNCHANGED nonLedVars

\* if (toggle_rate == NO_TOGGLE)
LedCheck ==
  /\ LedRunnable
  /\ led_pc = "check"
  /\ led_pc' = IF toggle_rate = NO_TOGGLE THEN "suspend" ELSE "toggle_load"
  /\ UNCHANGED <<pin_state, toggle_rate, led_out, led_tmp, led_suspended,
                 duration, pin0_prev_state, pin0_curr_state, btn_pc>>
  /\ UNCHANGED <<high_samples, hold_samples>>
  /\ UNCHANGED nonLedVars

\* vTaskSuspend(NULL); execution continues at the loop top once resumed
LedSuspend ==
  /\ LedRunnable
  /\ led_pc = "suspend"
  /\ led_suspended' = TRUE
  /\ led_pc' = "write"
  /\ UNCHANGED <<pin_state, toggle_rate, led_out, led_tmp,
                 duration, pin0_prev_state, pin0_curr_state, btn_pc>>
  /\ UNCHANGED <<high_samples, hold_samples>>
  /\ UNCHANGED nonLedVars

\* pin_state ^= 1, the load half
LedToggleLoad ==
  /\ LedRunnable
  /\ led_pc = "toggle_load"
  /\ led_tmp' = pin_state
  /\ led_pc' = "toggle_store"
  /\ UNCHANGED <<pin_state, toggle_rate, led_out, led_suspended,
                 duration, pin0_prev_state, pin0_curr_state, btn_pc>>
  /\ UNCHANGED <<high_samples, hold_samples>>
  /\ UNCHANGED nonLedVars

\* pin_state ^= 1, the store half, then vTaskDelay(toggle_rate)
LedToggleStore ==
  /\ LedRunnable
  /\ led_pc = "toggle_store"
  /\ pin_state' = (led_tmp + 1) % 2
  /\ led_tmp' = PIN_IS_LOW
  /\ led_pc' = "write"
  /\ UNCHANGED <<toggle_rate, led_out, led_suspended,
                 duration, pin0_prev_state, pin0_curr_state, btn_pc>>
  /\ UNCHANGED <<high_samples, hold_samples>>
  /\ UNCHANGED nonLedVars

\* Bucket with the boundary values in the lower bucket (<= for <).
Bucket_BoundaryLow(d) ==
  IF d >= 0 /\ d <= SHORT_LIMIT THEN "off"
  ELSE IF d > SHORT_LIMIT /\ d <= LONG_LIMIT THEN "slow"
  ELSE "fast"

\* The duration bucket of a released press.
Bucket(d) ==
  IF d >= 0 /\ d < SHORT_LIMIT THEN "off"
  ELSE IF d >= SHORT_LIMIT /\ d < LONG_LIMIT THEN "slow"
  ELSE "fast"

\* pin0_prev_state = GPIO_read(PORT_0, PIN0); pin0_curr_state = pin0_prev_state
ButtonInit ==
  /\ btn_pc = "init"
  /\ \E lvl \in Levels :
       /\ pin0_prev_state' = lvl
       /\ pin0_curr_state' = lvl
  /\ btn_pc' = "read"
  /\ UNCHANGED <<pin_state, toggle_rate, led_out, led_pc, led_tmp,
                 led_suspended, duration>>
  /\ UNCHANGED <<high_samples, hold_samples>>
  /\ UNCHANGED nonLedVars

\* One sample: GPIO_read, then the High branch, or the Low branch without a
\* falling edge, through to the end of the iteration; a falling edge goes on
\* to the bucket dispatch.
ButtonRead ==
  /\ btn_pc = "read"
  /\ \E lvl \in Levels :
       /\ pin0_curr_state' = lvl
       /\ IF lvl = PIN_IS_HIGH
            THEN /\ duration < MaxDuration
                 /\ duration' = duration + SAMPLE_MS
                 /\ pin0_prev_state' = lvl
                 /\ btn_pc' = "read"
            ELSE IF pin0_prev_state = PIN_IS_HIGH
                   THEN /\ btn_pc' = "classify"
                        /\ UNCHANGED <<duration, pin0_prev_state>>
                   ELSE /\ duration' = 0
                        /\ pin0_prev_state' = lvl
                        /\ btn_pc' = "read"
       /\ high_samples' = IF lvl = PIN_IS_HIGH THEN high_samples + 1 ELSE 0
       /\ hold_samples' = IF lvl = PIN_IS_LOW THEN high_samples ELSE 0
  /\ UNCHANGED <<pin_state, toggle_rate, led_out, led_pc, led_tmp,
                 led_suspended>>
  /\ UNCHANGED nonLedVars

\* The dispatch with vTaskResume called in every branch.
ButtonClassify_AlwaysResume ==
  /\ btn_pc = "classify"
  /\ toggle_rate' = CASE Bucket(duration) = "off" -> NO_TOGGLE
                      [] Bucket(duration) = "slow" -> SLOW_RATE
                      [] OTHER -> FAST_RATE
  /\ btn_pc' = "resume"
  /\ UNCHANGED <<pin_state, led_out, led_pc, led_tmp, led_suspended,
                 duration, pin0_prev_state, pin0_curr_state>>
  /\ UNCHANGED <<high_samples, hold_samples>>
  /\ UNCHANGED nonLedVars

\* The if / else-if / else chain on duration: the store to toggle_rate
ButtonClassify ==
  /\ btn_pc = "classify"
  /\ toggle_rate' = CASE Bucket(duration) = "off" -> NO_TOGGLE
                      [] Bucket(duration) = "slow" -> SLOW_RATE
                      [] OTHER -> FAST_RATE
  /\ btn_pc' = IF Bucket(duration) = "off" THEN "clear" ELSE "resume"
  /\ UNCHANGED <<pin_state, led_out, led_pc, led_tmp, led_suspended,
                 duration, pin0_prev_state, pin0_curr_state>>
  /\ UNCHANGED <<high_samples, hold_samples>>
  /\ UNCHANGED nonLedVars

\* pin_state = PIN_IS_LOW
ButtonClear ==
  /\ btn_pc = "clear"
  /\ pin_state' = PIN_IS_LOW
  /\ btn_pc' = "end"
  /\ UNCHANGED <<toggle_rate, led_out, led_pc, led_tmp, led_suspended,
                 duration, pin0_prev_state, pin0_curr_state>>
  /\ UNCHANGED <<high_samples, hold_samples>>
  /\ UNCHANGED nonLedVars

\* The long-hold branches with the short-hold branch's pin_state =
\* PIN_IS_LOW copied into them.
ButtonResume_ClearsPin ==
  /\ btn_pc = "resume"
  /\ pin_state' = PIN_IS_LOW
  /\ led_suspended' = FALSE
  /\ btn_pc' = "end"
  /\ UNCHANGED <<toggle_rate, led_out, led_pc, led_tmp,
                 duration, pin0_prev_state, pin0_curr_state>>
  /\ UNCHANGED <<high_samples, hold_samples>>
  /\ UNCHANGED nonLedVars

\* vTaskResume(LED_handle): a suspended task becomes ready, otherwise no effect
ButtonResume ==
  /\ btn_pc = "resume"
  /\ led_suspended' = FALSE
  /\ btn_pc' = "end"
  /\ UNCHANGED <<pin_state, toggle_rate, led_out, led_pc, led_tmp,
                 duration, pin0_prev_state, pin0_curr_state>>
  /\ UNCHANGED <<high_samples, hold_samples>>
  /\ UNCHANGED nonLedVars

\* The end of a falling-edge iteration without the reset of duration.
ButtonEnd_NoReset ==
  /\ btn_pc = "end"
  /\ pin0_prev_state' = pin0_curr_state
  /\ btn_pc' = "read"
  /\ hold_samples' = 0
  /\ UNCHANGED <<pin_state, toggle_rate, led_out, led_pc, led_tmp,
                 led_suspended, duration, pin0_curr_state, high_samples>>
  /\ UNCHANGED nonLedVars

\* duration = 0; pin0_prev_state = pin0_curr_state; vTaskDelay(10)
ButtonEnd ==
  /\ btn_pc = "end"
  /\ duration' = 0
  /\ pin0_prev_state' = pin0_curr_state
  /\ btn_pc' = "read"
  /\ hold_samples' = 0
  /\ UNCHANGED <<pin_state, toggle_rate, led_out, led_pc, led_tmp,
                 led_suspended, pin0_curr_state, high_samples>>
  /\ UNCHANGED nonLedVars

LedTaskStep ==
  \/ LedWrite
  \/ LedCheck
  \/ LedSuspend
  \/ LedToggleLoad
  \/ LedToggleStore

ButtonTaskStep ==
  \/ ButtonInit
  \/ ButtonRead
  \/ ButtonClassify
  \/ ButtonClear
  \/ ButtonResume
  \/ ButtonEnd

\* ------------------------------------------------------------------------
\* Mutex program: initial state (main, lines 115-132)
\* ------------------------------------------------------------------------
MutexInit ==
  /\ mutex = 0
  /\ task_pc = [t \in Tasks |-> "take"]
  /\ message_ID = [t \in Tasks |-> 0]
  /\ uart = <<>>

\* ------------------------------------------------------------------------
\* Queue program: initial state (main, lines 127-166): the queue is empty,
\* the three records are uninitialised stack objects, no task has run
\* ------------------------------------------------------------------------
Buttons == {"Button1", "Button2"}
Producers == Buttons \cup {"String"}
Uninit == [message |-> "?", message_len |-> 255]
NoSend == [ptr |-> "NULL", message |-> "?", message_len |-> 255]

QueueInit ==
  /\ message_queue = <<>>
  /\ record = [p \in Producers |-> Uninit]
  /\ button_pc = [b \in Buttons |-> "init"]
  /\ button_prev_state = [b \in Buttons |-> PIN_IS_LOW]
  /\ button_curr_state = [b \in Buttons |-> PIN_IS_LOW]
  /\ string_pc = "init"
  /\ consumer_pc = "receive"
  /\ consumer_message_ptr = "NULL"
  /\ serial_out = ""
  /\ edges = 0
  /\ accepted = <<>>
  /\ delivered = NoSend
  /\ unprinted = 0
  /\ emitted = [b \in Buttons |-> <<>>]
  /\ scenario = [b \in Buttons |-> 0]

Init == LedInit /\ MutexInit /\ QueueInit

LedNext ==
  \/ LedTaskStep
  \/ ButtonTaskStep

SpecLed == Init /\ [][LedNext]_vars

\* ------------------------------------------------------------------------
\* LED program: claims
\* ------------------------------------------------------------------------
\* A step of the button task that leaves the bucket dispatch.
ClassifyStep == btn_pc = "classify" /\ btn_pc' # "classify"

\* C8: on a falling edge with measured duration d the button task does
\* exactly one of: d < 2000 stores toggle_rate 0, then pin_state Low, and
\* does not resume the LED task; 2000 <= d < 4000 stores 400 and resumes;
\* d >= 4000 stores 100 and resumes.
C8_Buckets ==
  [][ /\ ClassifyStep =>
           /\ duration < 2000 =>
                (toggle_rate' = 0 /\ btn_pc' = "clear")
           /\ (duration >= 2000 /\ duration < 4000) =>
                (toggle_rate' = 400 /\ btn_pc' = "resume")
           /\ duration >= 4000 =>
                (toggle_rate' = 100 /\ btn_pc' = "resume")
      /\ (btn_pc = "clear" /\ btn_pc' # "clear") =>
           /\ btn_pc' = "end"
           /\ toggle_rate = 0 /\ toggle_rate' = 0
           /\ pin_state' = PIN_IS_LOW
           /\ led_suspended' = led_suspended
      /\ (btn_pc = "resume" /\ btn_pc' # "resume") =>
           /\ btn_pc' = "end"
           /\ toggle_rate \in {100, 400} /\ toggle_rate' = toggle_rate
           /\ pin_state' = pin_state
           /\ led_suspended' = FALSE
    ]_vars

\* C8 witness: a press of at least 4000 ms has been released, the fast rate
\* is stored and the suspended LED task has been resumed.
C8_Witness ==
  /\ btn_pc = "end"
  /\ duration >= 4000
  /\ toggle_rate = 100
  /\ ~led_suspended
  /\ led_pc = "write"

\* C9 as stated: a duration of exactly 2000 ms is handled as the [0,2000)
\* bucket (toggling disabled, pin low) and exactly 4000 ms as the
\* [2000,4000) bucket (slow rate).
C9_BoundaryLower ==
  [][ ClassifyStep =>
        /\ duration = 2000 => (toggle_rate' = 0 /\ btn_pc' = "clear")
        /\ duration = 4000 => toggle_rate' = 400
    ]_vars

\* C9 amended: a duration of exactly 2000 ms is handled as the [2000,4000)
\* bucket (slow rate 400, resume) and exactly 4000 ms as the [4000,inf)
\* bucket (fast rate 100, resume).
C9_BoundaryUpper ==
  [][ ClassifyStep =>
        /\ duration = 2000 => (toggle_rate' = 400 /\ btn_pc' = "resume")
        /\ duration = 4000 => (toggle_rate' = 100 /\ btn_pc' = "resume")
    ]_vars

\* C9 witness: a press of exactly 2000 ms has been dispatched to the slow
\* bucket.
C9_Witness ==
  /\ btn_pc = "resume"
  /\ duration = 2000
  /\ toggle_rate = 400

\* C10: while toggle_rate is 0 no step of the LED task inverts pin_state
\* or drives the output pin from Low to High.
C10_NoToggleWhileDisabled ==
  [][ (toggle_rate = 0 /\ led_pc' # led_pc) =>
        /\ pin_state' = pin_state
        /\ ~(led_out = PIN_IS_LOW /\ led_out' = PIN_IS_HIGH)
    ]_vars

\* A step of the LED task: every one of its steps moves led_pc.
LedTaskMoves == led_pc' # led_pc

\* C11 as stated: no step of the LED task writes a field of the LED record,
\* neither pin_state nor toggle_rate.
C11_LedTaskOnlyReads ==
  [][ LedTaskMoves => (pin_state' = pin_state /\ toggle_rate' = toggle_rate)
    ]_vars

\* C11 amended: toggle_rate is written by the button task only, in its
\* bucket dispatch; pin_state has two writers, the LED task's inversion and
\* the button task's clear to Low.
C11_ToggleRateSingleWriter ==
  [][ /\ LedTaskMoves => toggle_rate' = toggle_rate
      /\ toggle_rate' # toggle_rate => btn_pc = "classify"
      /\ pin_state' # pin_state =>
            \/ led_pc = "toggle_store" /\ LedTaskMoves
            \/ btn_pc = "clear" /\ btn_pc' = "end" /\ pin_state' = PIN_IS_LOW
    ]_vars

\* C11 witness: the LED task has written pin_state (only its inversion ever
\* stores High) while the button task's toggle_rate is in force.
C11_Witness ==
  /\ pin_state = PIN_IS_HIGH
  /\ toggle_rate = SLOW_RATE
  /\ led_pc = "write"

\* C16: once the button task has issued the resume for a hold of 2000 ms
\* or more, the LED task is not left suspended while toggle_rate is not 0
\* (no lost wake-up): it is suspended with a non-zero toggle_rate only in
\* the window between the button task's store and its vTaskResume.
C16_NoLostWakeup ==
  (led_suspended /\ toggle_rate # NO_TOGGLE) => btn_pc = "resume"

\* C17: the LED task is never suspended with the output pin driven High.
C17_SuspendedLow ==
  led_suspended => led_out = PIN_IS_LOW

\* C18: the duration the bucket dispatch uses at a falling edge is 10 ms
\* times the number of High samples the loop took in a row before the Low
\* sample of the edge (since the last Low sample, or since the start); while
\* sampling, duration is 10 ms times the High samples in a row so far, and
\* it is 0 at the start of every iteration whose stored previous level is
\* Low, a Low sample having reset it.
C18_DurationCountsHighSamples ==
  /\ btn_pc \in {"classify", "clear", "resume", "end"} =>
        duration = SAMPLE_MS * hold_samples
  /\ btn_pc = "read" => duration = SAMPLE_MS * high_samples
  /\ (btn_pc = "read" /\ pin0_prev_state = PIN_IS_LOW) => duration = 0

\* C18 witness: a second hold, begun after an earlier falling edge was
\* handled, ends in a falling edge after three High samples.
C18_Witness ==
  /\ btn_pc = "classify"
  /\ toggle_rate = SLOW_RATE
  /\ hold_samples = 3
  /\ duration = 3 * SAMPLE_MS

\* C22: a step of the button task changes pin_state or toggle_rate, or
\* resumes the LED task, only while it handles a falling edge (the sample
\* is Low and the stored previous level is High); a sample that is High,
\* or Low with the previous level Low, goes on to no dispatch and leaves
\* pin_state, toggle_rate and the LED task's suspension as they are; and
\* the handling of a hold of 2000 ms or more stores to toggle_rate only
\* and leaves pin_state unchanged.
C22_ButtonFrame ==
  [][ ~LedTaskMoves =>
        /\ btn_pc \in {"init", "read", "end"} =>
              /\ pin_state' = pin_state
              /\ toggle_rate' = toggle_rate
              /\ led_suspended' = led_suspended
        /\ (btn_pc = "read" /\ btn_pc' # "read") =>
              /\ btn_pc' = "classify"
              /\ pin0_curr_state' = PIN_IS_LOW
              /\ pin0_prev_state = PIN_IS_HIGH
        /\ (\/ pin_state' # pin_state
            \/ toggle_rate' # toggle_rate
            \/ led_suspended' # led_suspended) =>
              /\ pin0_curr_state = PIN_IS_LOW
              /\ pin0_prev_state = PIN_IS_HIGH
              /\ btn_pc \in {"classify", "clear", "resume"}
        /\ (btn_pc \in {"classify", "clear", "resume"}
              /\ duration >= SHORT_LIMIT) =>
              /\ pin_state' = pin_state
              /\ btn_pc # "clear"
        /\ btn_pc = "resume" =>
              /\ duration >= SHORT_LIMIT
              /\ toggle_rate' = toggle_rate
    ]_vars

\* C22 witness: the button task has handled a hold of 4000 ms, storing the
\* fast rate and resuming the LED task, while pin_state was High from the
\* LED task's toggling, and pin_state is still High.
C22_Witness ==
  /\ btn_pc = "end"
  /\ duration = LONG_LIMIT
  /\ toggle_rate = FAST_RATE
  /\ pin_state = PIN_IS_HIGH
  /\ led_suspended = FALSE
  /\ led_pc = "write"

\* ========================================================================
\* Mutex program: tasks
\* ========================================================================
\* xTaskCreate priorities: task1 has priority 2, task2 priority 1
Priority(t) == IF t = 1 THEN 2 ELSE 1

\* A task is blocked in vTaskDelay, or in xSemaphoreTake on a taken mutex.
Blocked(t) ==
  \/ task_pc[t] \in {"delay_msg", "delay_loop"}
  \/ task_pc[t] = "take" /\ mutex # 0

\* The scheduler runs a ready task only if no ready task has a higher
\* priority.
Scheduled(t) ==
  /\ ~Blocked(t)
  /\ \A u \in Tasks : Priority(u) > Priority(t) => Blocked(u)

\* The part of the loop body between a successful take and the give.
Holds(t) == task_pc[t] \in {"print", "delay_msg", "incr", "give"}

\* xSemaphoreTake(mutex, portMAX_DELAY) by task t: blocks while the mutex is
\* taken, then makes t the holder and returns pdTRUE.
xSemaphoreTake(t) ==
  /\ mutex = 0
  /\ mutex' = t

\* xSemaphoreGive(mutex) by task t: frees the mutex if t holds it.
xSemaphoreGive(t) ==
  mutex' = IF mutex = t THEN 0 ELSE mutex

\* xSemaphoreTake(mutex, NO_TIMEOUT) with the result ignored: the call
\* returns at once and the task goes on into the loop whether or not it
\* obtained the mutex.
Take_Unchecked(t) ==
  /\ task_pc[t] = "take"
  /\ \A u \in Tasks : Priority(u) > Priority(t) => Blocked(u)
  /\ mutex' = IF mutex = 0 THEN t ELSE mutex
  /\ message_ID' = [message_ID EXCEPT ![t] = 0]
  /\ task_pc' = [task_pc EXCEPT ![t] = "print"]
  /\ UNCHANGED uart
  /\ UNCHANGED nonMutexVars

\* if (xSemaphoreTake(mutex, portMAX_DELAY) == pdTRUE), then message_ID = 0
Take(t) ==
  /\ task_pc[t] = "take"
  /\ Scheduled(t)
  /\ xSemaphoreTake(t)
  /\ message_ID' = [message_ID EXCEPT ![t] = 0]
  /\ task_pc' = [task_pc EXCEPT ![t] = "print"]
  /\ UNCHANGED uart
  /\ UNCHANGED nonMutexVars

\* The characters from '0' (ASCII 48) to '?' (ASCII 63).
AsciiFromZero == "0123456789:;<=>?"

\* #define INT_TO_CHAR(number) ((char)(number + '0')); characters beyond
\* the table are shown as "~".
INT_TO_CHAR(number) ==
  IF number + 1 <= Len(AsciiFromZero)
    THEN SubSeq(AsciiFromZero, number + 1, number + 1)
    ELSE "~"

\* char message[] = "Task 1 - Message x\n" (task2: "Task 2 - ...")
MessageBody(t) ==
  IF t = 1 THEN "Task 1 - Message x\n" ELSE "Task 2 - Message x\n"

\* The body after message[message_len - 2] = INT_TO_CHAR(id)
MessageText(t, id) ==
  LET body == MessageBody(t)
      message_len == Len(body) % 256
  IN  SubSeq(body, 1, message_len - 2) \o INT_TO_CHAR(id)
        \o SubSeq(body, message_len, message_len)

\* The print with xSemaphoreGive inside the loop body, after every message.
PrintMessage_GiveInside(t) ==
  /\ task_pc[t] = "print"
  /\ Scheduled(t)
  /\ uart' = IF Len(uart) < MaxUart
               THEN Append(uart, <<t, MessageText(t, message_ID[t])>>)
               ELSE uart
  /\ xSemaphoreGive(t)
  /\ task_pc' = [task_pc EXCEPT ![t] = "delay_msg"]
  /\ UNCHANGED message_ID
  /\ UNCHANGED nonMutexVars

\* message[message_len - 2] = INT_TO_CHAR(message_ID); vSerialPutString;
\* (task2: the heavy-load loop;) vTaskDelay(100 or 500)
PrintMessage(t) ==
  /\ task_pc[t] = "print"
  /\ Scheduled(t)
  /\ uart' = IF Len(uart) < MaxUart
               THEN Append(uart, <<t, MessageText(t, message_ID[t])>>)
               ELSE uart
  /\ task_pc' = [task_pc EXCEPT ![t] = "delay_msg"]
  /\ UNCHANGED <<mutex, message_ID>>
  /\ UNCHANGED nonMutexVars

\* The tick interrupt ends a delay.
DelayExpires(t) ==
  /\ task_pc[t] \in {"delay_msg", "delay_loop"}
  /\ task_pc' = [task_pc EXCEPT
                   ![t] = IF task_pc[t] = "delay_msg" THEN "incr" ELSE "take"]
  /\ UNCHANGED <<mutex, message_ID, uart>>
  /\ UNCHANGED nonMutexVars

\* The loop left without the give: xSemaphoreGive placed inside the loop
\* body's last pass is skipped and the task goes on to vTaskDelay(1).
LoopIncrement_SkipGive(t) ==
  /\ task_pc[t] = "incr"
  /\ Scheduled(t)
  /\ message_ID' = [message_ID EXCEPT ![t] = (message_ID[t] + 1) % 256]
  /\ task_pc' = [task_pc EXCEPT
                   ![t] = IF (message_ID[t] + 1) % 256 < BATCH
                            THEN "print" ELSE "delay_loop"]
  /\ UNCHANGED <<mutex, uart>>
  /\ UNCHANGED nonMutexVars

\* The loop test written message_ID <= 10.
LoopIncrement_OffByOne(t) ==
  /\ task_pc[t] = "incr"
  /\ Scheduled(t)
  /\ message_ID' = [message_ID EXCEPT ![t] = (message_ID[t] + 1) % 256]
  /\ task_pc' = [task_pc EXCEPT
                   ![t] = IF (message_ID[t] + 1) % 256 <= BATCH
                            THEN "print" ELSE "give"]
  /\ UNCHANGED <<mutex, uart>>
  /\ UNCHANGED nonMutexVars

\* message_ID++ and the loop test message_ID < 10
LoopIncrement(t) ==
  /\ task_pc[t] = "incr"
  /\ Scheduled(t)
  /\ message_ID' = [message_ID EXCEPT ![t] = (message_ID[t] + 1) % 256]
  /\ task_pc' = [task_pc EXCEPT
                   ![t] = IF (message_ID[t] + 1) % 256 < BATCH
                            THEN "print" ELSE "give"]
  /\ UNCHANGED <<mutex, uart>>
  /\ UNCHANGED nonMutexVars

\* The give without the vTaskDelay(1) after it: the task goes straight
\* back to the take.
Give_NoDelay(t) ==
  /\ task_pc[t] = "give"
  /\ Scheduled(t)
  /\ xSemaphoreGive(t)
  /\ task_pc' = [task_pc EXCEPT ![t] = "take"]
  /\ UNCHANGED <<message_ID, uart>>
  /\ UNCHANGED nonMutexVars

\* xSemaphoreGive(mutex); vTaskDelay(1)
Give(t) ==
  /\ task_pc[t] = "give"
  /\ Scheduled(t)
  /\ xSemaphoreGive(t)
  /\ task_pc' = [task_pc EXCEPT ![t] = "delay_loop"]
  /\ UNCHANGED <<message_ID, uart>>
  /\ UNCHANGED nonMutexVars

task1_code ==
  \/ Take(1)
  \/ PrintMessage(1)
  \/ LoopIncrement(1)
  \/ Give(1)

task2_code ==
  \/ Take(2)
  \/ PrintMessage(2)
  \/ LoopIncrement(2)
  \/ Give(2)

TickInterrupt ==
  \/ DelayExpires(1)
  \/ DelayExpires(2)

MutexNext ==
  \/ task1_code
  \/ task2_code
  \/ TickInterrupt

SpecMutex == Init /\ [][MutexNext]_vars

\* The mutex program under the scheduler's guarantees.  The tick interrupt
\* keeps coming, so a delay that can expire does (weak fairness).  A ready
\* task of the highest ready priority gets the processor; a task waiting
\* in xSemaphoreTake is made ready by the give, and the giver then blocks
\* in vTaskDelay(1) for the rest of the tick period, which the waiter's
\* few instructions to complete the take fit into, so a task whose step is
\* enabled again and again gets to take it (strong fairness).
SpecMutexFair ==
  /\ Init
  /\ [][MutexNext]_vars
  /\ WF_vars(DelayExpires(1))
  /\ WF_vars(DelayExpires(2))
  /\ SF_vars(task1_code)
  /\ SF_vars(task2_code)

\* ------------------------------------------------------------------------
\* Mutex program: claims
\* ------------------------------------------------------------------------
\* C1: at most one of the two tasks is between its take and its give, the
\* one the mutex records as holder; and a task in take while the other
\* task holds the mutex stays in take for as long as no give has freed it.
C1_MutualExclusion ==
  /\ [](~(Holds(1) /\ Holds(2)))
  /\ [](\A t \in Tasks : Holds(t) => mutex = t)
  /\ [][ \A t \in Tasks :
           (task_pc[t] = "take" /\ mutex # 0) => task_pc'[t] = "take" ]_vars

\* C1 witness: task1 is in take while task2 holds the mutex in the middle
\* of its batch.
C1_Witness ==
  /\ task_pc[1] = "take"
  /\ mutex = 2
  /\ Holds(2)
  /\ message_ID[2] > 0

\* C12: a task holds the mutex only between its take and its give, never
\* at the end of an outer-loop iteration (the vTaskDelay(1)) or back at the
\* take; and every acquisition by a task is eventually followed by that
\* task's give.
C12_AlwaysGives ==
  /\ [](\A t \in Tasks :
          task_pc[t] \in {"take", "delay_loop"} => mutex # t)
  /\ \A t \in Tasks :
       (mutex = t) ~> (task_pc[t] = "delay_loop" /\ mutex # t)

\* C12 witness: task2 has given the mutex back after its whole batch, which
\* it printed after task1's.
C12_Witness ==
  /\ task_pc[2] = "delay_loop"
  /\ mutex # 2
  /\ message_ID[2] = BATCH
  /\ Len(uart) >= 2 * BATCH

\* C13: a task waiting in take eventually obtains the mutex, and each task
\* acquires the mutex infinitely often.
C13_NoStarvation ==
  /\ \A t \in Tasks : (task_pc[t] = "take") ~> (mutex = t)
  /\ \A t \in Tasks : []<>(mutex = t)

\* C13 witness: the lower-priority task2 holds the mutex, obtained after
\* task1's first batch, while task1 is back in take one tick after its give.
C13_Witness ==
  /\ mutex = 2
  /\ task_pc[1] = "take"
  /\ Len(uart) > BATCH
  /\ uart[BATCH][1] = 1
  /\ uart[BATCH + 1][1] = 2

\* The UART messages of one task, in order.
MessagesOf(t) == SelectSeq(uart, LAMBDA e : e[1] = t)

\* The character before the final newline of a message.
SuffixOf(text) == SubSeq(text, Len(text) - 1, Len(text) - 1)

DecimalDigits == <<"0", "1", "2", "3", "4", "5", "6", "7", "8", "9">>

\* The value of a decimal digit character, 10 for any other character.
DigitValue(c) ==
  IF \E d \in 0..9 : DecimalDigits[d + 1] = c
    THEN CHOOSE d \in 0..9 : DecimalDigits[d + 1] = c
    ELSE 10

\* C14: per task the suffix digits written to the UART are 0, 1, ..., 9, 0,
\* 1, ...: the first is 0 and each is the previous one plus 1 modulo 10.
C14_SuffixCycle ==
  \A t \in Tasks :
    LET msgs == MessagesOf(t)
    IN  \A i \in 1..Len(msgs) :
          /\ DigitValue(SuffixOf(msgs[i][2])) < 10
          /\ i = 1 => SuffixOf(msgs[i][2]) = "0"
          /\ i > 1 => DigitValue(SuffixOf(msgs[i][2])) =
                        (DigitValue(SuffixOf(msgs[i - 1][2])) + 1) % 10

\* C14 witness: task1 has printed past its first batch, so a suffix 9 has
\* been followed by a suffix 0.
C14_Witness ==
  /\ Len(MessagesOf(1)) > BATCH
  /\ SuffixOf(MessagesOf(1)[BATCH][2]) = "9"

\* C21: a message is written to the UART only by the task holding the
\* mutex; the UART output is a succession of batches of exactly 10 messages
\* of one task with the suffixes 0 to 9 in order, no message of the other
\* task in between; and a task gives the mutex only after the tenth
\* message of its batch.
C21_HolderBatches ==
  /\ [][ \A t \in Tasks :
           (task_pc[t] = "print" /\ task_pc'[t] # "print") => mutex = t
      ]_vars
  /\ [][ uart' # uart =>
           /\ uart' = Append(uart, uart'[Len(uart')])
           /\ mutex = uart'[Len(uart')][1]
      ]_vars
  /\ [](\A i \in 1..Len(uart) :
          /\ SuffixOf(uart[i][2]) = DecimalDigits[((i - 1) % BATCH) + 1]
          /\ (i - 1) % BATCH # 0 => uart[i][1] = uart[i - 1][1])
  /\ [](\A t \in Tasks :
          (task_pc[t] = "give" /\ Len(uart) < MaxUart) =>
            /\ Len(uart) >= BATCH
            /\ Len(uart) % BATCH = 0
            /\ uart[Len(uart)][1] = t)
  /\ [][ \A t \in Tasks :
           (mutex = t /\ mutex' # t) =>
             (task_pc[t] = "give" /\ message_ID[t] = BATCH)
      ]_vars

\* C21 witness: task2 is about to give after the tenth message of its
\* batch, which follows task1's batch on the UART, with task1 waiting.
C21_Witness ==
  /\ task_pc[2] = "give"
  /\ task_pc[1] = "take"
  /\ Len(uart) = 2 * BATCH
  /\ uart[BATCH][1] = 1
  /\ SuffixOf(uart[2 * BATCH][2]) = "9"

\* ========================================================================
\* Queue program: tasks
\* ========================================================================
\* The edge texts with the level test inverted (== PIN_IS_LOW).
EdgeMessage_Swapped(b, lvl) ==
  IF b = "Button1"
    THEN (IF lvl = PIN_IS_LOW THEN "Button1 Rising Edge\n"
                              ELSE "Button1 Falling Edge\n")
    ELSE (IF lvl = PIN_IS_LOW THEN "Button2 Rising Edge\n"
                              ELSE "Button2 Falling Edge\n")

\* The text a button task copies into its record for an edge to level lvl.
EdgeMessage(b, lvl) ==
  IF b = "Button1"
    THEN (IF lvl = PIN_IS_HIGH THEN "Button1 Rising Edge\n"
                               ELSE "Button1 Falling Edge\n")
    ELSE (IF lvl = PIN_IS_HIGH THEN "Button2 Rising Edge\n"
                               ELSE "Button2 Falling Edge\n")

\* strlen, cast to uint8_t
strlen(str) == Len(str) % 256

\* n bytes that follow the terminating NUL of a buffer, written "@"
RECURSIVE Pad(_)
Pad(n) == IF n <= 0 THEN "" ELSE "@" \o Pad(n - 1)

\* vSerialPutString(buf, n): the first n bytes of the buffer go to the UART
vSerialPutString(buf, n) ==
  IF n <= Len(buf) THEN SubSeq(buf, 1, n) ELSE buf \o Pad(n - Len(buf))

\* xQueueSend(message_queue, &ptr, portMAX_DELAY): blocks while the queue is
\* full, then copies the pointer to the back of the queue.
xQueueSend(ptr) ==
  /\ Len(message_queue) < MESSAGE_QUEUE_LEN
  /\ message_queue' = Append(message_queue, ptr)
  /\ accepted' = Append(accepted,
                        [ptr |-> ptr, message |-> record[ptr].message,
                         message_len |-> record[ptr].message_len])

\* xQueueSendToFront: as xQueueSend, but the pointer goes to the front.
xQueueSendToFront(ptr) ==
  /\ Len(message_queue) < MESSAGE_QUEUE_LEN
  /\ message_queue' = <<ptr>> \o message_queue
  /\ accepted' = Append(accepted,
                        [ptr |-> ptr, message |-> record[ptr].message,
                         message_len |-> record[ptr].message_len])

\* xQueueReceive(message_queue, &consumer_message_ptr, portMAX_DELAY): blocks
\* while the queue is empty, then removes the oldest pointer.
xQueueReceive ==
  /\ message_queue # <<>>
  /\ consumer_message_ptr' = Head(message_queue)
  /\ message_queue' = Tail(message_queue)
  /\ delivered' = Head(accepted)
  /\ accepted' = Tail(accepted)

\* The level sequence of the sampler example and the history it drives.
ScenarioLevels == <<PIN_IS_LOW, PIN_IS_LOW, PIN_IS_HIGH, PIN_IS_HIGH, PIN_IS_LOW>>
ScenarioAfter(n, lvl) ==
  IF n >= 0 /\ n < Len(ScenarioLevels) /\ ScenarioLevels[n + 1] = lvl
    THEN n + 1 ELSE -1

\* button_prev_state = GPIO_read(...); button_curr_state = button_prev_state
ButtonStart(b) ==
  /\ button_pc[b] = "init"
  /\ \E lvl \in Levels :
       /\ button_prev_state' = [button_prev_state EXCEPT ![b] = lvl]
       /\ button_curr_state' = [button_curr_state EXCEPT ![b] = lvl]
       /\ scenario' = [scenario EXCEPT ![b] = ScenarioAfter(scenario[b], lvl)]
  /\ button_pc' = [button_pc EXCEPT ![b] = "read"]
  /\ UNCHANGED <<message_queue, record, string_pc, consumer_pc,
                 consumer_message_ptr, serial_out, edges, accepted,
                 delivered, unprinted, emitted>>
  /\ UNCHANGED nonQueueVars

\* button_curr_state = GPIO_read(...) and the edge test; without an edge the
\* iteration runs through to its end (prev = curr; vTaskDelay(1)).
ButtonSample(b) ==
  /\ button_pc[b] = "read"
  /\ \E lvl \in Levels :
       /\ lvl # button_prev_state[b] => edges < MaxEdges
       /\ button_curr_state' = [button_curr_state EXCEPT ![b] = lvl]
       /\ scenario' = [scenario EXCEPT ![b] = ScenarioAfter(scenario[b], lvl)]
       /\ IF lvl # button_prev_state[b]
            THEN /\ button_pc' = [button_pc EXCEPT ![b] = "strcpy"]
                 /\ edges' = edges + 1
                 /\ UNCHANGED button_prev_state
            ELSE /\ button_prev_state' = [button_prev_state EXCEPT ![b] = lvl]
                 /\ UNCHANGED <<button_pc, edges>>
  /\ UNCHANGED <<message_queue, record, string_pc, consumer_pc,
                 consumer_message_ptr, serial_out, accepted, delivered,
                 unprinted, emitted>>
  /\ UNCHANGED nonQueueVars

\* strcpy(ptr->message, "ButtonN Rising Edge\n" or "ButtonN Falling Edge\n")
ButtonStrcpy(b) ==
  /\ button_pc[b] = "strcpy"
  /\ record' = [record EXCEPT
                  ![b].message = EdgeMessage(b, button_curr_state[b])]
  /\ button_pc' = [button_pc EXCEPT ![b] = "strlen"]
  /\ UNCHANGED <<message_queue, button_prev_state, button_curr_state,
                 string_pc, consumer_pc, consumer_message_ptr, serial_out,
                 edges, accepted, delivered, unprinted, emitted, scenario>>
  /\ UNCHANGED nonQueueVars

\* ptr->message_len = (uint8_t) strlen(ptr->message)
ButtonStrlen(b) ==
  /\ button_pc[b] = "strlen"
  /\ record' = [record EXCEPT ![b].message_len = strlen(record[b].message)]
  /\ button_pc' = [button_pc EXCEPT ![b] = "send"]
  /\ UNCHANGED <<message_queue, button_prev_state, button_curr_state,
                 string_pc, consumer_pc, consumer_message_ptr, serial_out,
                 edges, accepted, delivered, unprinted, emitted, scenario>>
  /\ UNCHANGED nonQueueVars

\* The send with a block time of 0 and its result ignored: on a full queue
\* the call returns at once and the message is dropped.
ButtonSend_NoWait(b) ==
  /\ button_pc[b] = "send"
  /\ IF Len(message_queue) < MESSAGE_QUEUE_LEN
       THEN /\ xQueueSend(b)
            /\ emitted' = [emitted EXCEPT
                             ![b] = Append(emitted[b], record[b].message)]
       ELSE UNCHANGED <<message_queue, accepted, emitted>>
  /\ button_prev_state' = [button_prev_state EXCEPT
                             ![b] = button_curr_state[b]]
  /\ button_pc' = [button_pc EXCEPT ![b] = "read"]
  /\ UNCHANGED <<record, button_curr_state, string_pc, consumer_pc,
                 consumer_message_ptr, serial_out, edges, delivered,
                 unprinted, scenario>>
  /\ UNCHANGED nonQueueVars

\* The send without button_prev_state = button_curr_state after it.
ButtonSend_KeepPrev(b) ==
  /\ button_pc[b] = "send"
  /\ xQueueSend(b)
  /\ emitted' = [emitted EXCEPT ![b] = Append(emitted[b], record[b].message)]
  /\ button_pc' = [button_pc EXCEPT ![b] = "read"]
  /\ UNCHANGED <<record, button_prev_state, button_curr_state, string_pc,
                 consumer_pc, consumer_message_ptr, serial_out, edges,
                 delivered, unprinted, scenario>>
  /\ UNCHANGED nonQueueVars

\* xQueueSend(message_queue, &button_message_ptr, portMAX_DELAY);
\* button_prev_state = button_curr_state; vTaskDelay(1)
ButtonSend(b) ==
  /\ button_pc[b] = "send"
  /\ xQueueSend(b)
  /\ button_prev_state' = [button_prev_state EXCEPT
                             ![b] = button_curr_state[b]]
  /\ emitted' = [emitted EXCEPT ![b] = Append(emitted[b], record[b].message)]
  /\ button_pc' = [button_pc EXCEPT ![b] = "read"]
  /\ UNCHANGED <<record, button_curr_state, string_pc, consumer_pc,
                 consumer_message_ptr, serial_out, edges, delivered,
                 unprinted, scenario>>
  /\ UNCHANGED nonQueueVars

\* The set-up without the store to message_len.
StringStart_NoLen ==
  /\ string_pc = "init"
  /\ record' = [record EXCEPT
                  !["String"].message = "Periodic Message\n"]
  /\ string_pc' = "send"
  /\ UNCHANGED <<message_queue, button_pc, button_prev_state,
                 button_curr_state, consumer_pc, consumer_message_ptr,
                 serial_out, edges, accepted, delivered, unprinted, emitted,
                 scenario>>
  /\ UNCHANGED nonQueueVars

\* strcpy(ptr->message, "Periodic Message\n"); ptr->message_len = strlen(...)
StringStart ==
  /\ string_pc = "init"
  /\ record' = [record EXCEPT
                  !["String"] = [message |-> "Periodic Message\n",
                                 message_len |-> strlen("Periodic Message\n")]]
  /\ string_pc' = "send"
  /\ UNCHANGED <<message_queue, button_pc, button_prev_state,
                 button_curr_state, consumer_pc, consumer_message_ptr,
                 serial_out, edges, accepted, delivered, unprinted, emitted,
                 scenario>>
  /\ UNCHANGED nonQueueVars

\* The periodic send through xQueueSendToFront.
StringSend_ToFront ==
  /\ string_pc = "send"
  /\ xQueueSendToFront("String")
  /\ UNCHANGED <<record, button_pc, button_prev_state, button_curr_state,
                 string_pc, consumer_pc, consumer_message_ptr, serial_out,
                 edges, delivered, unprinted, emitted, scenario>>
  /\ UNCHANGED nonQueueVars

\* The send outside the while(1) loop: made once, then the task is done.
StringSend_Once ==
  /\ string_pc = "send"
  /\ xQueueSend("String")
  /\ string_pc' = "done"
  /\ UNCHANGED <<record, button_pc, button_prev_state, button_curr_state,
                 consumer_pc, consumer_message_ptr, serial_out,
                 edges, delivered, unprinted, emitted, scenario>>
  /\ UNCHANGED nonQueueVars

\* xQueueSend(message_queue, &string_message_ptr, portMAX_DELAY);
\* vTaskDelay(100)
StringSend ==
  /\ string_pc = "send"
  /\ xQueueSend("String")
  /\ UNCHANGED <<record, button_pc, button_prev_state, button_curr_state,
                 string_pc, consumer_pc, consumer_message_ptr, serial_out,
                 edges, delivered, unprinted, emitted, scenario>>
  /\ UNCHANGED nonQueueVars

\* The receive through xQueuePeek: the pointer is read and stays queued.
ConsumerReceive_Peek ==
  /\ consumer_pc = "receive"
  /\ message_queue # <<>>
  /\ consumer_message_ptr' = Head(message_queue)
  /\ delivered' = Head(accepted)
  /\ accepted' = Tail(accepted)
  /\ unprinted' = unprinted + 1
  /\ consumer_pc' = "print"
  /\ UNCHANGED <<message_queue, record, button_pc, button_prev_state,
                 button_curr_state, string_pc, serial_out, edges, emitted,
                 scenario>>
  /\ UNCHANGED nonQueueVars

\* xQueueReceive(message_queue, &consumer_message_ptr, portMAX_DELAY)
ConsumerReceive ==
  /\ consumer_pc = "receive"
  /\ xQueueReceive
  /\ unprinted' = unprinted + 1
  /\ consumer_pc' = "print"
  /\ UNCHANGED <<record, button_pc, button_prev_state, button_curr_state,
                 string_pc, serial_out, edges, emitted, scenario>>
  /\ UNCHANGED nonQueueVars

\* vSerialPutString(ptr->message, ptr->message_len); vTaskDelay(50)
ConsumerPrint ==
  /\ consumer_pc = "print"
  /\ serial_out' = vSerialPutString(record[consumer_message_ptr].message,
                                    record[consumer_message_ptr].message_len)
  /\ unprinted' = unprinted - 1
  /\ consumer_pc' = "receive"
  /\ UNCHANGED <<message_queue, record, button_pc, button_prev_state,
                 button_curr_state, string_pc, consumer_message_ptr, edges,
                 accepted, delivered, emitted, scenario>>
  /\ UNCHANGED nonQueueVars

Button_task_code ==
  \/ \E b \in Buttons : ButtonStart(b)
  \/ \E b \in Buttons : ButtonSample(b)
  \/ \E b \in Buttons : ButtonStrcpy(b)
  \/ \E b \in Buttons : ButtonStrlen(b)
  \/ \E b \in Buttons : ButtonSend(b)

String_task_code ==
  \/ StringStart
  \/ StringSend

Consumer_task_code ==
  \/ ConsumerReceive
  \/ ConsumerPrint

QueueNext ==
  \/ Button_task_code
  \/ String_task_code
  \/ Consumer_task_code

SpecQueue == Init /\ [][QueueNext]_vars

\* The queue program under the scheduler's guarantees.  The four tasks have
\* the same priority and share the processor in turn, so a task that can
\* take a step does so (weak fairness of the consumer and of the String
\* task's set-up).  A producer waiting in xQueueSend on a full queue is
\* kept in the queue's list of waiting senders and is woken when a receive
\* frees a place, so a send that can go ahead again and again does (strong
\* fairness).  The button pins are the environment: sampling a change is
\* under no fairness.
SpecQueueFair ==
  /\ Init
  /\ [][QueueNext]_vars
  /\ WF_vars(Consumer_task_code)
  /\ WF_vars(StringStart)
  /\ SF_vars(StringSend)
  /\ \A b \in Buttons : SF_vars(ButtonSend(b))

\* ------------------------------------------------------------------------
\* Queue program: claims
\* ------------------------------------------------------------------------
\* The pointers of a sequence of accepted sends.
Pointers(sends) == [i \in 1..Len(sends) |-> sends[i].ptr]

\* C2: the queue holds the accepted, not yet received sends in the order
\* they were accepted, and each receive returns the oldest of them; so the
\* consumer's successive receives return the items in the order accepted,
\* for every interleaving of the three producers.
C2_Fifo ==
  /\ message_queue = Pointers(accepted)
  /\ consumer_pc = "print" => consumer_message_ptr = delivered.ptr

\* C2 witness: Button1, Button2 and the String task had sends accepted in
\* that order; the consumer has received Button1's and the other two are
\* queued in order.
C2_Witness ==
  /\ consumer_pc = "print"
  /\ consumer_message_ptr = "Button1"
  /\ message_queue = <<"Button2", "String">>
  /\ serial_out = ""

\* C3: from the moment a send is accepted until the consumer has printed
\* the item, the record it points to keeps the body and length it had when
\* the send was accepted, and what the consumer prints is that body.
C3_RecordImmutable ==
  /\ \A i \in 1..Len(accepted) :
       /\ record[accepted[i].ptr].message = accepted[i].message
       /\ record[accepted[i].ptr].message_len = accepted[i].message_len
  /\ consumer_pc = "print" =>
       /\ record[delivered.ptr].message = delivered.message
       /\ record[delivered.ptr].message_len = delivered.message_len
  /\ (consumer_pc = "receive" /\ delivered # NoSend) =>
       /\ serial_out = delivered.message
       /\ Len(serial_out) = delivered.message_len

\* C4: while the queue holds 10 items no send completes: the queue changes
\* only by a receive taking its head, no queued item is overwritten, and a
\* button task waiting in send stays in send with its item still to be
\* sent; while the queue is empty the consumer stays in receive, and a
\* receive that returns returns the head of a non-empty queue.
C4_Blocking ==
  [][ /\ Len(message_queue) = 10 =>
           /\ message_queue' \in {message_queue, Tail(message_queue)}
           /\ Len(accepted') <= Len(accepted)
           /\ \A b \in Buttons :
                button_pc[b] = "send" =>
                  (button_pc'[b] = "send" /\ emitted'[b] = emitted[b])
      /\ message_queue = <<>> =>
           /\ consumer_pc = "receive" => consumer_pc' = "receive"
           /\ consumer_message_ptr' = consumer_message_ptr
      /\ (consumer_pc = "receive" /\ consumer_pc' = "print") =>
           /\ message_queue # <<>>
           /\ consumer_message_ptr' = Head(message_queue)
           /\ message_queue' = Tail(message_queue)
    ]_vars

\* C4 witness: the queue is full, a button task with a detected edge and the
\* String task are both waiting in send.
C4_Witness ==
  /\ Len(message_queue) = 10
  /\ \E b \in Buttons : button_pc[b] = "send"
  /\ string_pc = "send"

\* C5: the number of items enqueued and not yet received is between 0 and
\* 10 in every reachable state.
C5_Bounded ==
  /\ Len(message_queue) >= 0
  /\ Len(message_queue) <= 10
  /\ Len(accepted) <= 10

\* C5 witness: the queue holds 10 items, from all three producers.
C5_Witness ==
  /\ Len(message_queue) = 10
  /\ {message_queue[i] : i \in 1..Len(message_queue)} = Producers

\* C6: accepted sends equal completed receives plus queued items (the sends
\* accepted and not yet received are exactly the queued ones), the item in
\* the consumer's hands is the one just taken off the queue, and every
\* completed receive is printed once before the next receive.
C6_ExactlyOnce ==
  /\ Len(accepted) = Len(message_queue)
  /\ unprinted = (IF consumer_pc = "print" THEN 1 ELSE 0)
  /\ consumer_pc = "print" => delivered.ptr \in Producers

\* C6 witness: one message has been printed, the next one received and not
\* yet printed, and more are queued.
C6_Witness ==
  /\ serial_out # ""
  /\ unprinted = 1
  /\ Len(message_queue) >= 2

\* The number of queued pointers to the record of producer p.
Queued(p, q) == Cardinality({i \in 1..Len(q) : q[i] = p})

\* The text ButtonN sends for an edge to level lvl, written out.
RisingText(b) ==
  IF b = "Button1" THEN "Button1 Rising Edge\n" ELSE "Button2 Rising Edge\n"
FallingText(b) ==
  IF b = "Button1" THEN "Button1 Falling Edge\n" ELSE "Button2 Falling Edge\n"

\* C7: an iteration of a button task sends a message iff the level just
\* read differs from the stored previous level; the message is the Rising
\* one when the new level is High and the Falling one when it is Low; after
\* every iteration the stored previous level is the level just read; and
\* for the levels Low, Low, High, High, Low (the initial read first) the
\* task has sent exactly Rising, then Falling.
C7_EdgeSampler ==
  /\ [](\A b \in Buttons :
          /\ button_pc[b] = "read" =>
               button_prev_state[b] = button_curr_state[b]
          /\ button_pc[b] \in {"strcpy", "strlen", "send"} =>
               button_prev_state[b] # button_curr_state[b]
          /\ (scenario[b] = 5 /\ button_pc[b] = "read") =>
               emitted[b] = <<RisingText(b), FallingText(b)>>)
  /\ [][\A b \in Buttons :
          /\ (button_pc[b] = "read" /\ button_pc'[b] # "read") =>
               /\ button_curr_state'[b] # button_prev_state[b]
               /\ button_pc'[b] = "strcpy"
          /\ (button_pc[b] = "read" /\ button_pc'[b] = "read") =>
               /\ emitted'[b] = emitted[b]
               /\ Queued(b, message_queue') <= Queued(b, message_queue)
          /\ (button_pc[b] \in {"strcpy", "strlen", "send"}
                /\ button_pc'[b] = "read") =>
               /\ button_pc[b] = "send"
               /\ message_queue' = Append(message_queue, b)
               /\ emitted'[b] =
                    Append(emitted[b],
                           IF button_curr_state[b] = PIN_IS_HIGH
                             THEN RisingText(b) ELSE FallingText(b))
               /\ record[b].message = emitted'[b][Len(emitted'[b])]
               /\ button_prev_state'[b] = button_curr_state[b]
       ]_vars

\* C7 witness: Button1 has read Low, Low, High, High, Low and finished the
\* iteration of the last read, having sent Rising, then Falling.
C7_Witness ==
  /\ scenario["Button1"] = 5
  /\ button_pc["Button1"] = "read"
  /\ emitted["Button1"] = <<"Button1 Rising Edge\n", "Button1 Falling Edge\n">>

\* The sends of the String task that are in flight, as handed over.
StringSends == SelectSeq(accepted, LAMBDA m : m.ptr = "String")

\* C15 as stated: every message the String task hands to the queue ends in
\* a decimal digit before its newline, the digit advancing by one (modulo
\* 10) from one send to the next.
C15_StringCounterSuffix ==
  \A i \in 1..Len(StringSends) :
    /\ DigitValue(SuffixOf(StringSends[i].message)) < 10
    /\ i > 1 => DigitValue(SuffixOf(StringSends[i].message)) =
                  (DigitValue(SuffixOf(StringSends[i - 1].message)) + 1) % 10

\* C15 amended: every message the String task hands to the queue is the
\* same fixed text "Periodic Message\n" of length 17, with no counter in it.
C15_StringFixedText ==
  \A i \in 1..Len(StringSends) :
    /\ StringSends[i].message = "Periodic Message\n"
    /\ StringSends[i].message_len = Len("Periodic Message\n")
    /\ DigitValue(SuffixOf(StringSends[i].message)) = 10

\* C15 witness: two sends of the String task are in flight, one behind the
\* other.
C15_Witness ==
  /\ Len(StringSends) >= 2
  /\ string_pc = "send"

\* The five texts the producers copy into their records.
FixedMessages ==
  {EdgeMessage(b, lvl) : b \in Buttons, lvl \in Levels}
    \cup {"Periodic Message\n"}

\* C20: whenever the consumer prints the record it received, the record's
\* message_len is the length of the text in the record at that moment and
\* at most MESSAGE_LEN, and what is printed is one of the five fixed
\* messages in full.
C20_PrintedRecordConsistent ==
  [][ (consumer_pc = "print" /\ consumer_pc' = "receive") =>
        /\ record[consumer_message_ptr].message_len =
              Len(record[consumer_message_ptr].message)
        /\ record[consumer_message_ptr].message_len <= MESSAGE_LEN
        /\ serial_out' \in FixedMessages
    ]_vars

\* C19: the queue program never deadlocks.  The consumer receives for
\* ever, so its wait on an empty queue always ends and the message at the
\* head of the queue is always eventually received; what it has received
\* it prints; so, the queue being first-in first-out, every accepted
\* message is eventually printed.  A full queue always has room again, a
\* button task waiting in send always has its send accepted, and the String
\* task sends for ever.
C19_Progress ==
  /\ [](ENABLED QueueNext)
  /\ []<>(consumer_pc = "print")
  /\ []<>(consumer_pc = "receive" /\ unprinted = 0)
  /\ []<>(Len(message_queue) < MESSAGE_QUEUE_LEN)
  /\ \A b \in Buttons : []<>(button_pc[b] # "send")
  /\ []<><<StringSend>>_vars

\* C19 witness: the queue is full with a button task and the String task
\* both waiting in send, and the consumer is about to receive.
C19_Witness ==
  /\ Len(message_queue) = MESSAGE_QUEUE_LEN
  /\ \E b \in Buttons : button_pc[b] = "send"
  /\ string_pc = "send"
  /\ consumer_pc = "receive"
  /\ unprinted = 0

\* C23: the edge messages a button task sends alternate strictly between
\* its Rising and its Falling message: no two in a row are the same, and
\* the message a task waiting in send (on a full queue or not) is about to
\* send differs from the last one it sent.
C23_EdgesAlternate ==
  \A b \in Buttons :
    /\ \A i \in 1..Len(emitted[b]) :
         /\ emitted[b][i] \in {RisingText(b), FallingText(b)}
         /\ i > 1 => emitted[b][i] # emitted[b][i - 1]
    /\ (button_pc[b] = "send" /\ emitted[b] # <<>>) =>
         /\ record[b].message \in {RisingText(b), FallingText(b)}
         /\ record[b].message # emitted[b][Len(emitted[b])]

\* C23 witness: Button2 has sent its Falling message and is blocked in the
\* send of its next message, the queue being full.
C23_Witness ==
  /\ emitted["Button2"] = <<FallingText("Button2")>>
  /\ button_pc["Button2"] = "send"
  /\ Len(message_queue) = MESSAGE_QUEUE_LEN
  /\ record["Button2"].message = RisingText("Button2")

====
